---- MODULE Spec2Model ----
(***************************************************************************)
(* EIP1559InspiredDynamicPricingCalculator                                 *)
(* (sdk/express/src/price-calculator/price.ts) as a state machine.         *)
(*                                                                         *)
(* Units.  Times are milliseconds (Date.now()).  Fees are IEEE doubles in  *)
(* the source; here a fee is an integer number of micro-dollars and a      *)
(* product fee * multiplier is rounded to the nearest micro-dollar.  The   *)
(* dimensionless reals (maxChangeRate, targetUtilization,                  *)
(* elasticityMultiplier, targetRPS, currentRPS, utilization) are exact     *)
(* rationals <<n, d>> with d > 0 in lowest terms.                          *)
(***************************************************************************)
EXTENDS Integers, Sequences, FiniteSets, TLC

VARIABLES
    config,          \* this.config
    currentBaseFee,  \* this.state.currentBaseFee   (micro-dollars)
    currentRPS,      \* this.state.currentRPS       (rational)
    targetRPS,       \* this.state.targetRPS        (rational)
    rpsHistory,      \* this.state.rpsHistory       (sequence of counts)
    baseFeeHistory,  \* this.state.baseFeeHistory   (sequence of fees)
    requestCounts,   \* this.state.requestCounts    (bucket key -> count)
    lastAdjustment,  \* this.state.lastAdjustment   (ms)
    clock,           \* the value Date.now() returns next
    step,            \* history: which operation produced this state
    last,            \* history: what the latest controller call read and returned
    lastQuoteAdj,    \* history: gate times of the latest two adjusting calculatePrice
                     \*          calls made with no other kind of call in between
    history,         \* history: "fresh", "reset" or "reconfigured"
    allLow,          \* history: every adjustment so far saw zero or below-target arrivals
    nUpdates,        \* history: number of updateConfig calls so far
    nCalls,          \* history: number of calls made on the controller so far
    handlers,        \* calculatePrice calls in flight: position, the local `now`
                     \*          and (history) the other clock values read
    route,           \* the protected route of the request paymentMiddleware served last
    threshold        \* the DynamicPricingCalculator of middleware-sdk: its config,
                     \*          its RPSTracker and the price it returned last

vars == <<config, currentBaseFee, currentRPS, targetRPS, rpsHistory,
          baseFeeHistory, requestCounts, lastAdjustment, clock, step, last,
          lastQuoteAdj, history, allLow, nUpdates, nCalls, handlers,
          route, threshold>>

(***************************************************************************)
(* Bounds of the model                                                     *)
(***************************************************************************)
MaxTicks == 3          \* the clock stops after this many half-second ticks
MaxDriftTicks == 1     \* ticks that may pass between the Date.now() reads of one call
MaxPerBucket == 2      \* arrivals recorded in one bucket
MaxUpdates == 1        \* updateConfig calls in one run
MaxCalls == 3          \* calls on the controller in one run
MaxForced == 7         \* calls in one run of a controller that keeps seven fees
NHandlers == 2         \* calculatePrice calls the server has in flight at once
MaxGapTicks == 3       \* ticks that may pass after an adjustment before the next arrival
LiveDriftTicks == 0    \* as MaxDriftTicks, for the calls of the never-ending run

(***************************************************************************)
(* Program constants                                                       *)
(***************************************************************************)
BucketMs == 1000       \* one-second buckets and the trailing-second window
PeakCapacity == 20     \* targetRPS = targetUtilization * 20
FallbackPrice == 1000  \* 0.001 dollars, the fallback of getNumberIntFromPrice
TickMs == BucketMs \div 2
MaxTime == MaxTicks * TickMs
None == 0 - 1

(***************************************************************************)
(* Rational arithmetic for the source's floating-point reals               *)
(***************************************************************************)
Abs(x) == IF x < 0 THEN 0 - x ELSE x

RECURSIVE GCD(_, _)
GCD(a, b) == IF b = 0 THEN a ELSE GCD(b, a % b)

Rat(n, d) ==
    LET s == IF d < 0 THEN 0 - 1 ELSE 1
        g == GCD(Abs(n), Abs(d))
    IN  <<(s * n) \div g, (s * d) \div g>>

Int2Rat(n) == <<n, 1>>
RAdd(x, y) == Rat(x[1] * y[2] + y[1] * x[2], x[2] * y[2])
RSub(x, y) == Rat(x[1] * y[2] - y[1] * x[2], x[2] * y[2])
RMul(x, y) == Rat(x[1] * y[1], x[2] * y[2])
RDiv(x, y) == Rat(x[1] * y[2], x[2] * y[1])
RLt(x, y) == x[1] * y[2] < y[1] * x[2]
RLeq(x, y) == x[1] * y[2] <= y[1] * x[2]
RMin(x, y) == IF RLt(y, x) THEN y ELSE x

MathMax(a, b) == IF a > b THEN a ELSE b
MathMin(a, b) == IF a < b THEN a ELSE b

\* mutation: the multiplier loses its fraction
MulFee_Truncated(fee, m) == fee * (m[1] \div m[2])

\* fee * multiplier, rounded to the nearest micro-dollar
MulFee(fee, m) == (2 * fee * m[1] + m[2]) \div (2 * m[2])

RECURSIVE SumSeq(_)
SumSeq(s) == IF Len(s) = 0 THEN 0 ELSE Head(s) + SumSeq(Tail(s))

RECURSIVE SumCounts(_, _)
SumCounts(rc, keys) ==
    IF keys = {} THEN 0
    ELSE LET k == CHOOSE x \in keys : TRUE
         IN  rc[k] + SumCounts(rc, keys \ {k})

(***************************************************************************)
(* Prices.  A Price is a string such as "$0.001", a number, or an object;  *)
(* micros is the amount parseFloat reads from the string (or the number).  *)
(***************************************************************************)
Str(m) == [kind |-> "string", micros |-> m]

getNumberIntFromPrice(originalPrice, price) ==
    IF price.kind = "string" THEN price.micros
    ELSE IF price.kind = "number" THEN price.micros
    ELSE IF originalPrice.kind = "string" THEN originalPrice.micros
    ELSE FallbackPrice

\* fee.toFixed(4): the fee in units of 0.0001 dollars, rounded to nearest
toFixed4(fee) == (fee + 50) \div 100

\* x.toFixed(1) of a rational x >= 0: x in tenths, rounded to nearest
toFixed1(x) == (20 * x[1] + x[2]) \div (2 * x[2])

(***************************************************************************)
(* Configurations                                                          *)
(***************************************************************************)
ConfigKeys == {"minBaseFee", "maxBaseFee", "defaultFee", "maxChangeRate",
               "targetUtilization", "smoothingWindow", "elasticityMultiplier",
               "adjustmentInterval"}

BaseConfig ==
    [minBaseFee |-> Str(500), maxBaseFee |-> Str(2000), defaultFee |-> Str(1000),
     maxChangeRate |-> <<1, 2>>, targetUtilization |-> <<1, 40>>,
     smoothingWindow |-> 2, elasticityMultiplier |-> <<1, 2>>,
     adjustmentInterval |-> 500]

\* what the specification's section 6 asks a configuration to satisfy
ValidConfig(c) ==
    LET lo == getNumberIntFromPrice(c.minBaseFee, c.minBaseFee)
        hi == getNumberIntFromPrice(c.maxBaseFee, c.maxBaseFee)
        d  == getNumberIntFromPrice(c.defaultFee, c.defaultFee)
    IN  /\ lo <= hi
        /\ lo <= d /\ d <= hi
        /\ RLt(Int2Rat(0), c.targetUtilization)
        /\ RLeq(c.targetUtilization, Int2Rat(1))
        /\ c.smoothingWindow > 0
        /\ c.adjustmentInterval > 0

\* configurations handed over by a validating loader
ValidConfigs ==
    {BaseConfig,
     [BaseConfig EXCEPT !.targetUtilization = <<1, 4>>, !.smoothingWindow = 1]}

\* configurations the constructor is called with when nothing validates them
AnyConfigs ==
    {BaseConfig,
     [BaseConfig EXCEPT !.minBaseFee = Str(2500)],
     [BaseConfig EXCEPT !.defaultFee = Str(3000)],
     [BaseConfig EXCEPT !.targetUtilization = <<3, 2>>],
     [BaseConfig EXCEPT !.targetUtilization = <<0 - 1, 4>>],
     [BaseConfig EXCEPT !.defaultFee = [kind |-> "object", micros |-> None]],
     [BaseConfig EXCEPT !.smoothingWindow = 0, !.adjustmentInterval = 0]}

\* the Partial<EIP1559InspiredConfig> arguments of updateConfig: the keys
\* that are present, and their values
Partial(keys, vals) == [keys |-> keys, vals |-> vals]

PartialConfigs ==
    {Partial({"smoothingWindow"}, [BaseConfig EXCEPT !.smoothingWindow = 1]),
     Partial({"minBaseFee"}, [BaseConfig EXCEPT !.minBaseFee = Str(1500)]),
     Partial({"maxBaseFee"}, [BaseConfig EXCEPT !.maxBaseFee = Str(800)]),
     Partial({"targetUtilization", "maxChangeRate"},
             [BaseConfig EXCEPT !.targetUtilization = <<1, 4>>,
                                !.maxChangeRate = <<1, 8>>])}

(***************************************************************************)
(* recordRequest                                                           *)
(***************************************************************************)
Bucket(now) == (now \div BucketMs) * BucketMs

\* mutation: buckets are kept one second longer
Cutoff_Late(now, cfg) == now - (cfg.smoothingWindow + 1) * 1000

Cutoff(now, cfg) == now - cfg.smoothingWindow * 1000

\* mutation: the bucket is set to 1 whatever it held
Increment_Set(rc, bucket) == [k \in DOMAIN rc \cup {bucket} |-> IF k = bucket THEN 1 ELSE rc[k]]

Increment(rc, bucket) ==
    [k \in DOMAIN rc \cup {bucket} |->
        IF k = bucket THEN (IF bucket \in DOMAIN rc THEN rc[bucket] ELSE 0) + 1
        ELSE rc[k]]

\* mutation: old buckets are never deleted
Purge_Never(rc, cutoff) == rc

Purge(rc, cutoff) == [k \in {t \in DOMAIN rc : ~(t < cutoff)} |-> rc[k]]

recordRequest(rc, now, cfg) == Purge(Increment(rc, Bucket(now)), Cutoff(now, cfg))

(***************************************************************************)
(* getCurrentRPS: the trailing-second count, the history it leaves and the *)
(* rate it returns (and stores in state.currentRPS)                        *)
(***************************************************************************)
\* mutation: the bucket exactly one second old is left out
TrailingCount_Strict(rc, now) ==
    SumCounts(rc, {t \in DOMAIN rc : t > now - 1000})

TrailingCount(rc, now) ==
    SumCounts(rc, {t \in DOMAIN rc : t >= now - 1000})

PushCapped(h, x, cfg) ==
    LET h2 == Append(h, x)
    IN  IF Len(h2) > cfg.smoothingWindow THEN Tail(h2) ELSE h2

\* mutation: every positive count is pushed
RpsHistoryAfter_Always(h, count, cfg) ==
    IF count > 0 THEN PushCapped(h, count, cfg) ELSE h

RpsHistoryAfter(h, count, cfg) ==
    LET lastHistoryValue == IF Len(h) = 0 THEN 0 ELSE h[Len(h)]
    IN  IF count > 0 /\ (Len(h) = 0 \/ Abs(count - lastHistoryValue) > 1)
        THEN PushCapped(h, count, cfg)
        ELSE h

\* mutation: the measured rate is always the average of the history
RateOf_Smoothed(h, count) ==
    IF Len(h) > 0 THEN Rat(SumSeq(h), Len(h)) ELSE Int2Rat(0)

RateOf(h, count) ==
    IF count > 0 THEN Int2Rat(count)
    ELSE IF Len(h) > 0 THEN Rat(SumSeq(h), Len(h))
    ELSE Int2Rat(0)

getCurrentRPS(h, rc, now, cfg) ==
    LET count == TrailingCount(rc, now)
    IN  [count |-> count,
         rate |-> RateOf(h, count),
         rpsHistory |-> RpsHistoryAfter(h, count, cfg)]

(***************************************************************************)
(* adjustBaseFee                                                           *)
(***************************************************************************)
\* mutation: the over-capacity branch subtracts the change
OverMultiplier_Subtract(utilization, cfg) ==
    LET excessRatio == RSub(utilization, Int2Rat(1))
    IN  RSub(Int2Rat(1),
             RMin(RMul(RMul(excessRatio, cfg.maxChangeRate), cfg.elasticityMultiplier),
                  cfg.maxChangeRate))

OverMultiplier(utilization, cfg) ==
    LET excessRatio == RSub(utilization, Int2Rat(1))
    IN  RAdd(Int2Rat(1),
             RMin(RMul(RMul(excessRatio, cfg.maxChangeRate), cfg.elasticityMultiplier),
                  cfg.maxChangeRate))

\* mutation: the under-utilisation branch leaves the fee alone
UnderMultiplier_One(utilization, cfg) == Int2Rat(1)

\* mutation: the under-utilisation branch adds the change
UnderMultiplier_Add(utilization, cfg) ==
    LET shortageRatio == RDiv(RSub(cfg.targetUtilization, utilization),
                              cfg.targetUtilization)
    IN  RAdd(Int2Rat(1),
             RMin(RMul(shortageRatio, cfg.maxChangeRate), cfg.maxChangeRate))

UnderMultiplier(utilization, cfg) ==
    LET shortageRatio == RDiv(RSub(cfg.targetUtilization, utilization),
                              cfg.targetUtilization)
    IN  RSub(Int2Rat(1),
             RMin(RMul(shortageRatio, cfg.maxChangeRate), cfg.maxChangeRate))

\* mutation: the over-capacity branch starts at targetUtilization
BaseFeeMultiplier_EarlyOver(rate, target, cfg) ==
    LET utilization == RDiv(rate, target)
    IN  IF RLt(cfg.targetUtilization, utilization)
        THEN OverMultiplier(utilization, cfg)
        ELSE IF RLt(utilization, cfg.targetUtilization)
             THEN UnderMultiplier(utilization, cfg)
        ELSE Int2Rat(1)

\* mutation: no stable band, everything up to full utilization is a shortage
BaseFeeMultiplier_NoBand(rate, target, cfg) ==
    LET utilization == RDiv(rate, target)
    IN  IF RLt(Int2Rat(1), utilization) THEN OverMultiplier(utilization, cfg)
        ELSE IF RLt(utilization, Int2Rat(1))
             THEN UnderMultiplier(utilization, cfg)
        ELSE Int2Rat(1)

BaseFeeMultiplier(rate, target, cfg) ==
    LET utilization == RDiv(rate, target)
    IN  IF RLt(Int2Rat(1), utilization) THEN OverMultiplier(utilization, cfg)
        ELSE IF RLt(utilization, cfg.targetUtilization)
             THEN UnderMultiplier(utilization, cfg)
        ELSE Int2Rat(1)

\* mutation: Math.min and Math.max exchanged
Clamp_Swapped(x, cfg) ==
    LET minFee == getNumberIntFromPrice(cfg.minBaseFee, cfg.minBaseFee)
        maxFee == getNumberIntFromPrice(cfg.maxBaseFee, cfg.maxBaseFee)
    IN  MathMin(minFee, MathMax(x, maxFee))

Clamp(x, cfg) ==
    LET minFee == getNumberIntFromPrice(cfg.minBaseFee, cfg.minBaseFee)
        maxFee == getNumberIntFromPrice(cfg.maxBaseFee, cfg.maxBaseFee)
    IN  MathMax(minFee, MathMin(x, maxFee))

\* the state adjustBaseFee leaves and the number it returns
adjustBaseFee(fee, feeHist, h, rc, target, now, cfg) ==
    LET r == getCurrentRPS(h, rc, now, cfg)
    IN  IF target[1] = 0
        THEN [fee |-> fee, baseFeeHistory |-> feeHist, rps |-> r,
              returned |-> getNumberIntFromPrice(cfg.defaultFee, cfg.defaultFee)]
        ELSE LET newBaseFee ==
                     Clamp(MulFee(fee, BaseFeeMultiplier(r.rate, target, cfg)), cfg)
             IN  [fee |-> newBaseFee,
                  baseFeeHistory |-> PushCapped(feeHist, newBaseFee, cfg),
                  rps |-> r,
                  returned |-> newBaseFee]

(***************************************************************************)
(* getEIP1559Metrics                                                       *)
(***************************************************************************)
\* mutation: the first five entries
slice5_First(h) == SubSeq(h, 1, MathMin(5, Len(h)))

\* baseFeeHistory.slice(-5) (price.ts 225)
slice5(h) == SubSeq(h, MathMax(1, Len(h) - 4), Len(h))

getEIP1559Metrics ==
    [currentRPS |-> currentRPS,
     targetRPS |-> targetRPS,
     utilization |-> toFixed1(IF RLt(Int2Rat(0), targetRPS)
                              THEN RMul(RDiv(currentRPS, targetRPS), Int2Rat(100))
                              ELSE Int2Rat(0)),
     currentBaseFee |-> toFixed4(currentBaseFee),
     requestCount |-> SumCounts(requestCounts, DOMAIN requestCounts),
     activeSeconds |-> Cardinality(DOMAIN requestCounts),
     historySize |-> Len(rpsHistory),
     baseFeeHistory |-> slice5(baseFeeHistory),
     lastAdjustment |-> lastAdjustment]

(***************************************************************************)
(* The controller's operations                                             *)
(***************************************************************************)
NoCall == [op |-> "none", tRecord |-> None, tRate |-> None, adjusted |-> FALSE]

\* the values a later Date.now() of the same call may return
Later(t) == {t + i * TickMs : i \in 0..MaxDriftTicks} \cap 0..MaxTime

LastTwo(s) == IF Len(s) > 2 THEN Tail(s) ELSE s

IsLow(count, target) == count = 0 \/ RLt(Int2Rat(count), target)

\* mutation: targetRPS is the utilization itself
InitialTargetRPS_Unscaled(cfg) == cfg.targetUtilization

\* targetRPS: config.targetUtilization * 20 (price.ts 61)
InitialTargetRPS(cfg) == RMul(cfg.targetUtilization, Int2Rat(PeakCapacity))

\* constructor (price.ts 54-71)
Construct(cfg) ==
    LET defaultFeeNum == getNumberIntFromPrice(cfg.defaultFee, cfg.defaultFee)
    IN  /\ config = cfg
        /\ currentBaseFee = defaultFeeNum
        /\ currentRPS = Int2Rat(0)
        /\ targetRPS = InitialTargetRPS(cfg)
        /\ rpsHistory = <<>>
        /\ baseFeeHistory = <<defaultFeeNum>>
        /\ requestCounts = [k \in {} |-> 0]
        /\ lastAdjustment = clock

\* the requests whose calculatePrice call the server has to run
Handlers == 1..NHandlers

\* a calculatePrice call that has not started
IdleHandler == [pc |-> "idle", t1 |-> None, t2 |-> None, now |-> None, t4 |-> None]

\* no DynamicPricingCalculator has been built
NoThreshold == [config |-> None, requestTimestamps |-> <<>>, returned |-> None]

InitHistory ==
    /\ clock = 0
    /\ route = None
    /\ handlers = [p \in Handlers |-> IdleHandler]
    /\ step = "construct"
    /\ last = NoCall
    /\ lastQuoteAdj = <<>>
    /\ history = "fresh"
    /\ allLow = TRUE
    /\ nUpdates = 0
    /\ nCalls = 0

Init == InitHistory /\ threshold = NoThreshold /\ \E cfg \in ValidConfigs : Construct(cfg)

InitAny == InitHistory /\ threshold = NoThreshold /\ \E cfg \in AnyConfigs : Construct(cfg)

\* mutation: the gate is ignored
IntervalPassed_Always(now, lastAdj, cfg) == TRUE

\* the interval gate of calculatePrice (price.ts 86)
IntervalPassed(now, lastAdj, cfg) == now - lastAdj >= cfg.adjustmentInterval

\* mutation: lastAdjustment is not updated
GateStamp_Stale(passed, now, lastAdj) == lastAdj

\* lastAdjustment after calculatePrice (price.ts 91)
GateStamp(passed, now, lastAdj) == IF passed THEN now ELSE lastAdj

\* calculatePrice (price.ts 77-98): recordRequest reads the clock at n1,
\* getCurrentRPS at n2, the gate at n3 and adjustBaseFee's getCurrentRPS at n4
Quote(n1, n2, n3, n4) ==
    LET rc == recordRequest(requestCounts, n1, config)
        r == getCurrentRPS(rpsHistory, rc, n2, config)
        passed == IntervalPassed(n3, lastAdjustment, config)
        a == adjustBaseFee(currentBaseFee, baseFeeHistory, r.rpsHistory, rc,
                           targetRPS, n4, config)
        fee == IF passed THEN a.fee ELSE currentBaseFee
        seen == IF passed THEN a.rps ELSE r
    IN  /\ nCalls < MaxCalls /\ UNCHANGED <<handlers, threshold>>
        /\ n1 = clock /\ n1 <= n2 /\ n2 <= n3 /\ n3 <= n4
        /\ passed \/ n4 = n3
        /\ (IF Bucket(n1) \in DOMAIN requestCounts
            THEN requestCounts[Bucket(n1)] ELSE 0) < MaxPerBucket
        /\ requestCounts' = rc
        /\ rpsHistory' = seen.rpsHistory
        /\ currentRPS' = seen.rate
        /\ currentBaseFee' = fee
        /\ baseFeeHistory' = IF passed THEN a.baseFeeHistory ELSE baseFeeHistory
        /\ lastAdjustment' = GateStamp(passed, n3, lastAdjustment)
        /\ clock' = n4
        /\ step' = "quote"
        /\ last' = [op |-> "quote", tRecord |-> n1,
                    tRate |-> IF passed THEN n4 ELSE n2, adjusted |-> passed]
        /\ lastQuoteAdj' = IF passed THEN LastTwo(Append(lastQuoteAdj, n3))
                         ELSE lastQuoteAdj
        /\ allLow' = IF passed THEN allLow /\ IsLow(seen.count, targetRPS) ELSE allLow
        /\ nCalls' = nCalls + 1
        /\ UNCHANGED <<config, targetRPS, history, nUpdates>>

\* the number of calls a run makes: MaxCalls, or MaxForced for a controller
\* built to keep more than five fees
CallBound == IF config.smoothingWindow > 5 THEN MaxForced ELSE MaxCalls

\* mutation: forceAdjustment leaves lastAdjustment alone
ForceStamp_Kept(now, lastAdj) == lastAdj

\* this.state.lastAdjustment = Date.now() (price.ts 252)
ForceStamp(now, lastAdj) == now

\* forceAdjustment (price.ts 250-253)
ForceAdjustment(n1, n2) ==
    LET a == adjustBaseFee(currentBaseFee, baseFeeHistory, rpsHistory,
                           requestCounts, targetRPS, n1, config)
    IN  /\ nCalls < CallBound /\ UNCHANGED <<handlers, route, threshold>>
        /\ n1 = clock /\ n1 <= n2
        /\ rpsHistory' = a.rps.rpsHistory
        /\ currentRPS' = a.rps.rate
        /\ currentBaseFee' = a.fee
        /\ baseFeeHistory' = a.baseFeeHistory
        /\ lastAdjustment' = ForceStamp(n2, lastAdjustment)
        /\ clock' = n2
        /\ step' = "force"
        /\ last' = [op |-> "force", tRecord |-> None, tRate |-> n1, adjusted |-> TRUE]
        /\ lastQuoteAdj' = <<>>
        /\ allLow' = (allLow /\ IsLow(a.rps.count, targetRPS))
        /\ nCalls' = nCalls + 1
        /\ UNCHANGED <<config, targetRPS, requestCounts, history, nUpdates>>

\* a direct call of the public adjustBaseFee (price.ts 163-207)
AdjustBaseFee ==
    LET a == adjustBaseFee(currentBaseFee, baseFeeHistory, rpsHistory,
                           requestCounts, targetRPS, clock, config)
    IN  /\ nCalls < MaxCalls /\ UNCHANGED <<handlers, route, threshold>>
        /\ rpsHistory' = a.rps.rpsHistory
        /\ currentRPS' = a.rps.rate
        /\ currentBaseFee' = a.fee
        /\ baseFeeHistory' = a.baseFeeHistory
        /\ step' = "adjust"
        /\ last' = [op |-> "adjust", tRecord |-> None, tRate |-> clock,
                    adjusted |-> TRUE]
        /\ lastQuoteAdj' = <<>>
        /\ allLow' = (allLow /\ IsLow(a.rps.count, targetRPS))
        /\ nCalls' = nCalls + 1
        /\ UNCHANGED <<config, targetRPS, requestCounts, lastAdjustment, clock,
                       history, nUpdates>>

\* a direct call of the public getCurrentRPS (price.ts 122-157)
GetCurrentRPS ==
    LET r == getCurrentRPS(rpsHistory, requestCounts, clock, config)
    IN  /\ nCalls < MaxCalls /\ UNCHANGED <<handlers, route, threshold>>
        /\ rpsHistory' = r.rpsHistory
        /\ currentRPS' = r.rate
        /\ step' = "rate"
        /\ last' = [op |-> "rate", tRecord |-> None, tRate |-> clock,
                    adjusted |-> FALSE]
        /\ lastQuoteAdj' = <<>>
        /\ UNCHANGED <<config, targetRPS, currentBaseFee, baseFeeHistory,
                       requestCounts, lastAdjustment, clock, history, allLow,
                       nUpdates>>
        /\ nCalls' = nCalls + 1

\* mutation: reset keeps the fee history
FreshFeeHistory_Stale(defaultFeeNum) == baseFeeHistory

\* mutation: reset keeps the rate history
FreshRpsHistory_Stale == rpsHistory

\* baseFeeHistory of a fresh state (price.ts 240, as in the constructor)
FreshFeeHistory(defaultFeeNum) == <<defaultFeeNum>>

\* rpsHistory of a fresh state (price.ts 239)
FreshRpsHistory == <<>>

\* mutation: reset leaves lastAdjustment alone
ResetStamp_Kept(now, lastAdj) == lastAdj

\* lastAdjustment: Date.now() (price.ts 241)
ResetStamp(now, lastAdj) == now

\* reset (price.ts 233-245)
Reset ==
    LET defaultFeeNum == getNumberIntFromPrice(config.defaultFee, config.defaultFee)
    IN  /\ nCalls < MaxCalls /\ UNCHANGED <<handlers, route, threshold>>
        /\ currentBaseFee' = defaultFeeNum
        /\ currentRPS' = Int2Rat(0)
        /\ targetRPS' = RMul(config.targetUtilization, Int2Rat(PeakCapacity))
        /\ rpsHistory' = FreshRpsHistory
        /\ baseFeeHistory' = FreshFeeHistory(defaultFeeNum)
        /\ requestCounts' = [k \in {} |-> 0]
        /\ lastAdjustment' = ResetStamp(clock, lastAdjustment)
        /\ step' = "reset"
        /\ last' = [NoCall EXCEPT !.op = "reset"]
        /\ lastQuoteAdj' = <<>>
        /\ history' = IF history = "reconfigured" THEN history ELSE "reset"
        /\ nCalls' = nCalls + 1
        /\ UNCHANGED <<config, clock, allLow, nUpdates>>

\* mutation: the new configuration replaces the old one wholesale
Merge_Replace(cfg, newConfig) == newConfig.vals

\* { ...this.config, ...newConfig } (price.ts 259)
Merge(cfg, newConfig) ==
    [k \in ConfigKeys |-> IF k \in newConfig.keys THEN newConfig.vals[k] ELSE cfg[k]]

\* updateConfig (price.ts 258-267)
UpdateConfig(newConfig) ==
    /\ nCalls < MaxCalls /\ UNCHANGED <<handlers, route, threshold>>
    /\ nUpdates < MaxUpdates
    /\ config' = Merge(config, newConfig)
    /\ targetRPS' = IF "targetUtilization" \in newConfig.keys
                    THEN RMul(newConfig.vals.targetUtilization, Int2Rat(PeakCapacity))
                    ELSE targetRPS
    /\ nUpdates' = nUpdates + 1
    /\ nCalls' = nCalls + 1
    /\ step' = "updateConfig"
    /\ last' = [NoCall EXCEPT !.op = "updateConfig"]
    /\ lastQuoteAdj' = <<>>
    /\ history' = "reconfigured"
    /\ UNCHANGED <<currentBaseFee, currentRPS, rpsHistory, baseFeeHistory,
                   requestCounts, lastAdjustment, clock, allLow>>

\* time passes between two calls
Tick ==
    /\ clock + TickMs <= MaxTime /\ UNCHANGED <<handlers, route, threshold>>
    /\ clock' = clock + TickMs
    /\ step' = "tick"
    /\ UNCHANGED <<config, currentBaseFee, currentRPS, targetRPS, rpsHistory,
                   baseFeeHistory, requestCounts, lastAdjustment, last,
                   lastQuoteAdj, history, allLow, nUpdates, nCalls>>

QuoteStep == \E n2 \in Later(clock) : \E n3 \in Later(clock) : \E n4 \in Later(clock) :
                Quote(clock, n2, n3, n4) /\ UNCHANGED route

ForceStep == \E n2 \in Later(clock) : ForceAdjustment(clock, n2)

UpdateStep == \E newConfig \in PartialConfigs : UpdateConfig(newConfig)

Next ==
    \/ QuoteStep
    \/ ForceStep
    \/ AdjustBaseFee
    \/ GetCurrentRPS
    \/ Reset
    \/ UpdateStep
    \/ Tick

Spec == Init /\ [][Next]_vars

SpecAny == InitAny /\ [][Next]_vars

TypeOK ==
    /\ DOMAIN config = ConfigKeys
    /\ currentBaseFee \in Nat
    /\ clock \in 0..MaxTime
    /\ lastAdjustment \in 0..MaxTime
    /\ Len(rpsHistory) >= 0 /\ Len(baseFeeHistory) >= 0
    /\ \A k \in DOMAIN requestCounts : requestCounts[k] \in 1..MaxPerBucket

(***************************************************************************)
(* Properties                                                              *)
(***************************************************************************)
MinFee == getNumberIntFromPrice(config.minBaseFee, config.minBaseFee)
MaxFee == getNumberIntFromPrice(config.maxBaseFee, config.maxBaseFee)
DefaultFee == getNumberIntFromPrice(config.defaultFee, config.defaultFee)

\* this step is a call on the controller (not the passing of time)
CallStep == nCalls' # nCalls

\* this step is a call that ran adjustBaseFee
AdjustStep == CallStep /\ last'.adjusted

CountAt(rc, bucket) == IF bucket \in DOMAIN rc THEN rc[bucket] ELSE 0

\* C1: in every reachable state the current fee lies between the minimum
\* and the maximum fee of the configuration in force.
C1_FeeWithinBounds == MinFee <= currentBaseFee /\ currentBaseFee <= MaxFee

\* C2: when a quote follows a quote with no other call in between and its
\* gate time is less than adjustmentInterval after lastAdjustment (the gate
\* time is clock' here, the call's last clock read), it returns the fee the
\* first one returned, and its arrival is counted in its bucket.
C2_QuoteIdempotentWithinInterval ==
    [][(/\ CallStep
        /\ step' = "quote"
        /\ last.op = "quote"
        /\ clock' - lastAdjustment < config.adjustmentInterval)
       => (/\ toFixed4(currentBaseFee') = toFixed4(currentBaseFee)
           /\ CountAt(requestCounts', Bucket(last'.tRecord))
                = CountAt(requestCounts, Bucket(last'.tRecord)) + 1)]_vars

C2_Witness ==
    /\ step = "quote"
    /\ ~last.adjusted
    /\ nCalls = 2
    /\ getEIP1559Metrics.requestCount = 2
    /\ clock - lastAdjustment < config.adjustmentInterval

\* C3: in a run of quotes only, two quotes that each adjust the fee have
\* gate times at least adjustmentInterval apart.
C3_AdjustmentsOneIntervalApart ==
    Len(lastQuoteAdj) = 2
        => lastQuoteAdj[2] - lastQuoteAdj[1] >= config.adjustmentInterval

C3_Witness ==
    /\ Len(lastQuoteAdj) = 2
    /\ step = "quote"
    /\ last.adjusted

\* C4: with no updateConfig and no reset since construction, an adjustment
\* whose measured rate is above targetRPS does not decrease the fee.
C4_CongestionNeverDecreasesFee ==
    [][(/\ AdjustStep
        /\ history' = "fresh"
        /\ RLt(targetRPS, currentRPS'))
       => currentBaseFee' >= currentBaseFee]_vars

C4_Witness ==
    /\ step \in {"quote", "force", "adjust"}
    /\ last.adjusted
    /\ history = "fresh"
    /\ RLt(targetRPS, currentRPS)
    /\ currentBaseFee > DefaultFee

\* C5: with the configuration unchanged, while every adjustment so far saw
\* zero arrivals or fewer arrivals than targetRPS in its trailing second, an
\* adjustment does not increase the fee.
C5_ReliefNeverIncreasesFee ==
    [][(/\ AdjustStep
        /\ history' # "reconfigured"
        /\ allLow')
       => currentBaseFee' <= currentBaseFee]_vars

\* C6: both histories hold at most smoothingWindow entries, for the
\* smoothingWindow of the configuration in force.
C6_BoundedHistory ==
    /\ Len(baseFeeHistory) <= config.smoothingWindow
    /\ Len(rpsHistory) <= config.smoothingWindow

NoKeyBefore(t) ==
    \A k \in DOMAIN requestCounts : ~(k < t - config.smoothingWindow * 1000)

C8_ResetRestoresDefaults ==
    step = "reset"
        => /\ currentBaseFee = DefaultFee
           /\ getEIP1559Metrics.currentRPS = Int2Rat(0)
           /\ getEIP1559Metrics.requestCount = 0
           /\ getEIP1559Metrics.historySize = 0
           /\ requestCounts = [k \in {} |-> 0]

C8_Witness ==
    /\ step = "reset"
    /\ ~allLow
    /\ nCalls >= 2

C10_ConstructionRejectsInvalidConfig ==
    step = "construct" => ValidConfig(config)

\* what C11 asks of the configuration an updateConfig call leaves in force
AcceptableUpdate(c, fee) ==
    LET lo == getNumberIntFromPrice(c.minBaseFee, c.minBaseFee)
        hi == getNumberIntFromPrice(c.maxBaseFee, c.maxBaseFee)
        d  == getNumberIntFromPrice(c.defaultFee, c.defaultFee)
    IN  /\ lo <= hi
        /\ lo <= d /\ d <= hi
        /\ lo <= fee /\ fee <= hi
        /\ c.smoothingWindow > 0
        /\ c.adjustmentInterval > 0

\* C11: an updateConfig call whose merged configuration has invalid bounds
\* (minFee > maxFee, currentFee or defaultFee outside them) or a non-positive
\* smoothingWindow or adjustmentInterval leaves config, targetRPS and the
\* current fee as they were.
C11_InvalidUpdateRejected ==
    [][(/\ CallStep
        /\ step' = "updateConfig"
        /\ ~AcceptableUpdate(config', currentBaseFee))
       => UNCHANGED <<config, targetRPS, currentBaseFee>>]_vars

(***************************************************************************)
(* calculatePrice as a function of the controller's state, and the calls   *)
(* of several requests in flight taken one statement at a time             *)
(***************************************************************************)
\* this.state without targetRPS, which calculatePrice never writes
CtrlState(fee, rps, hist, feeHist, rc, lastAdj) ==
    [currentBaseFee |-> fee, currentRPS |-> rps, rpsHistory |-> hist,
     baseFeeHistory |-> feeHist, requestCounts |-> rc, lastAdjustment |-> lastAdj]

Ctrl == CtrlState(currentBaseFee, currentRPS, rpsHistory, baseFeeHistory,
                  requestCounts, lastAdjustment)

\* this.state as the constructor leaves it (price.ts 58-68), built at time 0
FreshCtrl(cfg) ==
    LET defaultFeeNum == getNumberIntFromPrice(cfg.defaultFee, cfg.defaultFee)
    IN  CtrlState(defaultFeeNum, Int2Rat(0), <<>>, <<defaultFeeNum>>,
                  [k \in {} |-> 0], 0)

\* calculatePrice (price.ts 77-98) on state s, its Date.now() reads returning
\* n1 (recordRequest), n2 (getCurrentRPS), n3 (the gate) and n4 (adjustBaseFee)
calculatePrice(s, n1, n2, n3, n4, target, cfg) ==
    LET rc == recordRequest(s.requestCounts, n1, cfg)
        r == getCurrentRPS(s.rpsHistory, rc, n2, cfg)
        passed == IntervalPassed(n3, s.lastAdjustment, cfg)
        a == adjustBaseFee(s.currentBaseFee, s.baseFeeHistory, r.rpsHistory, rc,
                           target, n4, cfg)
    IN  IF passed
        THEN CtrlState(a.fee, a.rps.rate, a.rps.rpsHistory, a.baseFeeHistory, rc,
                       GateStamp(passed, n3, s.lastAdjustment))
        ELSE CtrlState(s.currentBaseFee, r.rate, r.rpsHistory, s.baseFeeHistory, rc,
                       GateStamp(passed, n3, s.lastAdjustment))

\* mutation: a call may be suspended between two statements
CanStep_Preempted(p) == TRUE

\* calculatePrice is a synchronous function (price.ts 77, no await): once a
\* call has started, no other call runs until it has returned
CanStep(p) == \A q \in Handlers \ {p} : handlers[q].pc \in {"idle", "done"}

\* this.recordRequest() (price.ts 78)
CRecord(p) ==
    /\ CanStep(p)
    /\ handlers[p].pc = "idle"
    /\ requestCounts' = recordRequest(requestCounts, clock, config)
    /\ handlers' = [handlers EXCEPT ![p] = [@ EXCEPT !.pc = "recorded", !.t1 = clock]]
    /\ UNCHANGED <<config, currentBaseFee, currentRPS, targetRPS, rpsHistory,
                   baseFeeHistory, lastAdjustment, clock, step, last,
                   lastQuoteAdj, history, allLow, nUpdates, nCalls,
                   route, threshold>>

\* const currentRPS = this.getCurrentRPS() (price.ts 81)
CRate(p) ==
    LET r == getCurrentRPS(rpsHistory, requestCounts, clock, config)
    IN  /\ CanStep(p)
        /\ handlers[p].pc = "recorded"
        /\ rpsHistory' = r.rpsHistory
        /\ currentRPS' = r.rate
        /\ handlers' = [handlers EXCEPT ![p] = [@ EXCEPT !.pc = "rated", !.t2 = clock]]
        /\ UNCHANGED <<config, currentBaseFee, targetRPS, baseFeeHistory,
                       requestCounts, lastAdjustment, clock, step, last,
                       lastQuoteAdj, history, allLow, nUpdates, nCalls,
                   route, threshold>>

\* const now = Date.now() and the test of the interval (price.ts 83-86)
CGate(p) ==
    /\ CanStep(p)
    /\ handlers[p].pc = "rated"
    /\ handlers' = [handlers EXCEPT ![p] =
                      [@ EXCEPT !.pc = IF IntervalPassed(clock, lastAdjustment, config)
                                       THEN "adjusting" ELSE "done",
                                !.now = clock]]
    /\ UNCHANGED <<config, currentBaseFee, currentRPS, targetRPS, rpsHistory,
                   baseFeeHistory, requestCounts, lastAdjustment, clock, step,
                   last, lastQuoteAdj, history, allLow, nUpdates, nCalls,
                   route, threshold>>

\* this.adjustBaseFee(); this.state.lastAdjustment = now (price.ts 89-91)
CAdjust(p) ==
    LET a == adjustBaseFee(currentBaseFee, baseFeeHistory, rpsHistory,
                           requestCounts, targetRPS, clock, config)
    IN  /\ CanStep(p)
        /\ handlers[p].pc = "adjusting"
        /\ rpsHistory' = a.rps.rpsHistory
        /\ currentRPS' = a.rps.rate
        /\ currentBaseFee' = a.fee
        /\ baseFeeHistory' = a.baseFeeHistory
        /\ lastAdjustment' = GateStamp(TRUE, handlers[p].now, lastAdjustment)
        /\ handlers' = [handlers EXCEPT ![p] = [@ EXCEPT !.pc = "done", !.t4 = clock]]
        /\ UNCHANGED <<config, targetRPS, requestCounts, clock, step, last,
                       lastQuoteAdj, history, allLow, nUpdates, nCalls,
                   route, threshold>>

RecordStep == \E p \in Handlers : CRecord(p)

RateStep == \E p \in Handlers : CRate(p)

GateStep == \E p \in Handlers : CGate(p)

AdjustFeeStep == \E p \in Handlers : CAdjust(p)

NextConc ==
    \/ RecordStep
    \/ RateStep
    \/ GateStep
    \/ AdjustFeeStep
    \/ Tick

\* NHandlers requests served by one controller
SpecConc == Init /\ [][NextConc]_vars

\* the orders in which the calls of the set S can be made one after the other
Orders(S) ==
    {o \in [1..Cardinality(S) -> S] :
        \A i, j \in 1..Cardinality(S) : o[i] = o[j] => i = j}

\* the state after the calls o[i], o[i+1], ... made one after the other on s,
\* each reading the clock values it read in this run
RECURSIVE Replay(_, _, _)
Replay(o, i, s) ==
    IF i > Len(o) THEN s
    ELSE LET h == handlers[o[i]]
         IN  Replay(o, i + 1,
                    calculatePrice(s, h.t1, h.t2, h.now,
                                   IF h.t4 = None THEN h.now ELSE h.t4,
                                   targetRPS, config))

Returned == {p \in Handlers : handlers[p].pc = "done"}

Adjusted == {p \in Returned : handlers[p].t4 # None}

\* C12: the calculatePrice calls of concurrent requests are atomic: whenever no
\* call is under way, the controller's state is the one some sequential order
\* of the returned calls produces, so no arrival is lost, and the gate times
\* of two calls that both adjusted are at least one interval apart.
C12_QuotesSerializable ==
    (\A p \in Handlers : handlers[p].pc \in {"idle", "done"})
    => /\ \E o \in Orders(Returned) : Replay(o, 1, FreshCtrl(config)) = Ctrl
       /\ \A p \in Adjusted : \A q \in Adjusted \ {p} :
             Abs(handlers[p].now - handlers[q].now) >= config.adjustmentInterval

\* every call has returned, two of them recorded in the same bucket, and
\* exactly one adjusted the fee
C12_Witness ==
    /\ Returned = Handlers
    /\ Cardinality(Adjusted) = 1
    /\ \E b \in DOMAIN requestCounts : requestCounts[b] >= 2

\* C13: the outcome of a calculatePrice call is a function of the state it
\* starts from and of the one timestamp of the call: the state after the call
\* is the one obtained when recordRequest, getCurrentRPS, the gate and
\* adjustBaseFee all use the time at which the call was made, so that two
\* controllers given the same calls at the same times stay identical.
C13_OneTimestampPerCall ==
    [][(CallStep /\ step' = "quote")
       => CtrlState(currentBaseFee', currentRPS', rpsHistory', baseFeeHistory',
                    requestCounts', lastAdjustment')
          = calculatePrice(Ctrl, clock, clock, clock, clock, targetRPS, config)]_vars

\* C14: on a fresh controller, the N-th of N calculatePrice calls whose
\* timestamps all fall in one one-second bucket, none of them adjusting the
\* fee, leaves metrics with currentRPS = N, requestCount = N, activeSeconds = 1
\* and utilization = N / targetRPS as a percentage with one decimal.
C14_SameBucketQuotesCounted ==
    [][(/\ CallStep
        /\ step' = "quote"
        /\ history = "fresh"
        /\ lastQuoteAdj = <<>> /\ ~last'.adjusted
        /\ SumCounts(requestCounts, DOMAIN requestCounts) = nCalls
        /\ DOMAIN requestCounts \subseteq {Bucket(last'.tRecord)}
        /\ Bucket(last'.tRate) = Bucket(last'.tRecord))
       => /\ getEIP1559Metrics'.currentRPS = Int2Rat(nCalls + 1)
          /\ getEIP1559Metrics'.requestCount = nCalls + 1
          /\ getEIP1559Metrics'.activeSeconds = 1
          /\ getEIP1559Metrics'.utilization
               = ((nCalls + 1) * 1000 * targetRPS[2] + (targetRPS[1] \div 2))
                    \div targetRPS[1]]_vars

\* two calculatePrice calls in one bucket on a fresh controller, no adjustment
C14_Witness ==
    /\ step = "quote"
    /\ history = "fresh"
    /\ nCalls = 2
    /\ lastQuoteAdj = <<>>
    /\ DOMAIN requestCounts = {Bucket(last.tRecord)}
    /\ Bucket(last.tRate) = Bucket(last.tRecord)
    /\ getEIP1559Metrics.requestCount = 2
    /\ getEIP1559Metrics.currentRPS = Int2Rat(2)

Positive(x) == RLt(Int2Rat(0), x)

\* C15: an adjustment that measures a rate above the target, with
\* maxChangeRate > 0, elasticityMultiplier > 0 and the fee below maxBaseFee,
\* leaves the fee strictly greater than it was.
C15_CongestionRaisesFee ==
    [][(/\ AdjustStep
        /\ RLt(targetRPS, currentRPS')
        /\ Positive(config.maxChangeRate)
        /\ Positive(config.elasticityMultiplier)
        /\ currentBaseFee < MaxFee)
       => currentBaseFee' > currentBaseFee]_vars

\* the first adjustment of a fresh controller saw a rate above target
C15_Witness ==
    /\ last.adjusted
    /\ history = "fresh"
    /\ RLt(targetRPS, currentRPS)
    /\ Len(baseFeeHistory) = 2
    /\ baseFeeHistory[1] < MaxFee
    /\ currentBaseFee > baseFeeHistory[1]

\* C16: a forceAdjustment that measures a utilization below
\* targetUtilization, with maxChangeRate > 0 and the fee above minBaseFee,
\* leaves the fee strictly less than it was.
C16_ForcedReliefLowersFee ==
    [][(/\ CallStep
        /\ step' = "force"
        /\ Positive(targetRPS)
        /\ RLt(RDiv(currentRPS', targetRPS), config.targetUtilization)
        /\ Positive(config.maxChangeRate)
        /\ currentBaseFee > MinFee)
       => currentBaseFee' < currentBaseFee]_vars

\* a forceAdjustment on a fresh idle controller lowered the fee
C16_Witness ==
    /\ step = "force"
    /\ history = "fresh"
    /\ RLt(RDiv(currentRPS, targetRPS), config.targetUtilization)
    /\ Len(baseFeeHistory) = 2
    /\ baseFeeHistory[1] > MinFee
    /\ currentBaseFee < baseFeeHistory[1]

\* a configuration whose maxChangeRate is 0
PinnedConfig == [BaseConfig EXCEPT !.maxChangeRate = Int2Rat(0)]

InitPinned == InitHistory /\ threshold = NoThreshold /\ Construct(PinnedConfig)

\* the controller built with maxChangeRate 0
SpecPinned == InitPinned /\ [][Next]_vars

\* C17: with maxChangeRate 0 and defaultFee within the bounds, the fee equals
\* defaultFee after every sequence of calls that does not change the
\* configuration.
C17_ZeroChangeRatePinsFee ==
    (config.maxChangeRate = Int2Rat(0) /\ history # "reconfigured")
        => currentBaseFee = DefaultFee

\* with maxChangeRate 0, a forceAdjustment that measured a rate above the
\* target has run after another call, and the fee is still the default
C17_Witness ==
    /\ config.maxChangeRate = Int2Rat(0)
    /\ history = "fresh"
    /\ step = "force"
    /\ ~allLow
    /\ Len(baseFeeHistory) = 2
    /\ nCalls >= 2
    /\ currentBaseFee = DefaultFee

\* C18: every adjustment moves the fee by at most maxChangeRate: the new fee
\* lies between old * (1 - maxChangeRate) and old * (1 + maxChangeRate),
\* whatever the rate, the elasticity and the calls made before.
C18_ChangeWithinMaxChangeRate ==
    [][AdjustStep
       => /\ MulFee(currentBaseFee,
                    RSub(Int2Rat(1), config.maxChangeRate)) <= currentBaseFee'
          /\ currentBaseFee' <= MulFee(currentBaseFee,
                                       RAdd(Int2Rat(1), config.maxChangeRate))]_vars

\* C19: an adjustment made while targetRPS is zero or negative does not apply
\* the multiplicative update: the fee and the fee history stay as they were.
C19_NonPositiveTargetSkipsUpdate ==
    [][(AdjustStep /\ ~Positive(targetRPS))
       => UNCHANGED <<currentBaseFee, baseFeeHistory>>]_vars

\* C20: updateConfig(partial) replaces exactly the configuration fields
\* present in partial and keeps the others; targetRPS becomes
\* targetUtilization * 20 when partial has targetUtilization and is unchanged
\* otherwise; the fee, both histories, the bucket counts and lastAdjustment
\* are unchanged.
C20_UpdateConfigFrame ==
    [][(CallStep /\ step' = "updateConfig")
       => /\ \E newConfig \in PartialConfigs :
               /\ \A k \in ConfigKeys :
                     config'[k] = IF k \in newConfig.keys
                                  THEN newConfig.vals[k] ELSE config[k]
               /\ targetRPS' =
                     IF "targetUtilization" \in newConfig.keys
                     THEN Rat(newConfig.vals.targetUtilization[1] * PeakCapacity,
                              newConfig.vals.targetUtilization[2])
                     ELSE targetRPS
          /\ UNCHANGED <<currentBaseFee, baseFeeHistory, rpsHistory,
                         requestCounts, lastAdjustment>>]_vars

\* updateConfig({targetUtilization: 0.25, maxChangeRate: 0.125}) was applied
\* to a controller built with other values, after its fee had moved
C20_Witness ==
    /\ step = "updateConfig"
    /\ config.maxChangeRate = <<1, 8>>
    /\ config.smoothingWindow = 1
    /\ targetRPS = Int2Rat(5)
    /\ currentBaseFee # DefaultFee

(***************************************************************************)
(* getEIP1559Metrics as an operation of the controller                     *)
(***************************************************************************)
\* mutation: metrics measures the rate anew
MetricsCurrentRPS_Measured ==
    getCurrentRPS(rpsHistory, requestCounts, clock, config).rate

\* this.state.currentRPS after getEIP1559Metrics, which reads it (price.ts
\* 213, 218) and calls neither getCurrentRPS nor recordRequest
MetricsCurrentRPS == currentRPS

\* getEIP1559Metrics (price.ts 212-228): computes the record of that name from
\* this.state and assigns nothing
Metrics ==
    /\ nCalls < MaxCalls
    /\ currentRPS' = MetricsCurrentRPS
    /\ step' = "metrics"
    /\ last' = [NoCall EXCEPT !.op = "metrics"]
    /\ lastQuoteAdj' = <<>>
    /\ nCalls' = nCalls + 1
    /\ UNCHANGED <<config, currentBaseFee, targetRPS, rpsHistory, baseFeeHistory,
                   requestCounts, lastAdjustment, clock, history, allLow,
                   nUpdates, handlers, route, threshold>>

NextMetrics ==
    \/ QuoteStep
    \/ ForceStep
    \/ Metrics
    \/ Tick

\* quotes and forced adjustments with metrics reads in between
SpecMetrics == Init /\ [][NextMetrics]_vars

\* C21: getEIP1559Metrics is a pure read: a metrics call changes none of the
\* bucket counts, the rate history, currentRPS, the fee, the fee history and
\* lastAdjustment, so the calls that follow start from the state they would
\* have started from without it.
C21_MetricsPureRead ==
    [][(CallStep /\ step' = "metrics")
       => UNCHANGED <<requestCounts, rpsHistory, currentRPS, currentBaseFee,
                      baseFeeHistory, lastAdjustment>>]_vars

\* metrics was read after arrivals were recorded and the fee had been adjusted
C21_Witness ==
    /\ step = "metrics"
    /\ DOMAIN requestCounts # {}
    /\ Len(baseFeeHistory) = 2
    /\ currentRPS # Int2Rat(0)

\* C22: forceAdjustment runs adjustBaseFee whether or not the interval has
\* passed and then sets lastAdjustment to the current time; a calculatePrice
\* call that follows it and ends less than adjustmentInterval after that time
\* adjusts nothing.
C22_ForceBypassesGateAndStamps ==
    [][CallStep
       => /\ step' = "force"
             => /\ baseFeeHistory'
                     = PushCapped(baseFeeHistory, currentBaseFee', config)
                /\ lastAdjustment' = clock'
          /\ (/\ step' = "quote"
              /\ last.op = "force"
              /\ clock' - last.tRate < config.adjustmentInterval)
             => UNCHANGED <<currentBaseFee, baseFeeHistory, lastAdjustment>>]_vars

\* a forceAdjustment made before the interval had passed was followed, within
\* the interval, by a calculatePrice call that did not adjust
C22_Witness ==
    /\ step = "quote"
    /\ history = "fresh"
    /\ nCalls = 2
    /\ ~last.adjusted
    /\ lastQuoteAdj = <<>>
    /\ Len(baseFeeHistory) = 2
    /\ lastAdjustment = 0
    /\ clock - lastAdjustment < config.adjustmentInterval

PriceKeys == {"minBaseFee", "maxBaseFee", "defaultFee"}

\* the prices getNumberIntFromPrice reads a number from (price.ts 274-279)
Interpretable(price) == price.kind \in {"string", "number"}

\* C23: a configured price that cannot be read as a number makes construction
\* fail, so no calculatePrice call is ever answered by a controller one of
\* whose configured prices is not a number.
C23_UnparsablePriceRejected ==
    step = "quote" => \A k \in PriceKeys : Interpretable(config[k])

(***************************************************************************)
(* The middleware: one calculator, built once, prices every protected      *)
(* route (middlware.ts 26-27, paymentMiddleware)                           *)
(***************************************************************************)
\* the protected routes of the RoutesConfig
Routes == {"/a", "/b"}

\* the fee and the rate estimate behind the price of a route: those of the
\* one pricingCalculator whose calculatePrice paymentMiddleware calls for
\* every matching route
RouteFee(r) == currentBaseFee

RouteRate(r) == currentRPS

\* paymentMiddleware serving a request to the protected route r
RouteRequest(r) ==
    /\ \E n2 \in Later(clock) : \E n3 \in Later(clock) : \E n4 \in Later(clock) :
          Quote(clock, n2, n3, n4)
    /\ route' = r

RouteStep == \E r \in Routes : RouteRequest(r)

NextRoutes ==
    \/ RouteStep
    \/ Tick

\* requests to the protected routes of one middleware
SpecRoutes == Init /\ [][NextRoutes]_vars

\* C24: each protected route has its own controller state: a calculatePrice
\* call made for a request to one route changes neither the fee nor the rate
\* estimate behind the price of any other route.
C24_RoutesIndependent ==
    [][(CallStep /\ step' = "quote")
       => \A r \in Routes \ {route'} :
             /\ RouteFee(r)' = RouteFee(r)
             /\ RouteRate(r)' = RouteRate(r)]_vars

(***************************************************************************)
(* The controller under arrivals that never stop.  Date.now() grows        *)
(* without bound; the code uses it only through differences and through    *)
(* Math.floor(now / 1000) * 1000, so every time of the state is kept       *)
(* relative to an epoch that moves forward one bucket at a time.           *)
(***************************************************************************)
\* calculatePrice (price.ts 77-98) for one more arrival
LiveQuote(n2, n3, n4) ==
    LET passed == IntervalPassed(n3, lastAdjustment, config)
        s == calculatePrice(Ctrl, clock, n2, n3, n4, targetRPS, config)
    IN  /\ clock < BucketMs
        /\ clock <= n2 /\ n2 <= n3 /\ n3 <= n4
        /\ passed \/ n4 = n3
        /\ (IF Bucket(clock) \in DOMAIN requestCounts
            THEN requestCounts[Bucket(clock)] ELSE 0) < MaxPerBucket
        /\ requestCounts' = s.requestCounts
        /\ rpsHistory' = s.rpsHistory
        /\ currentRPS' = s.currentRPS
        /\ currentBaseFee' = s.currentBaseFee
        /\ baseFeeHistory' = s.baseFeeHistory
        /\ lastAdjustment' = s.lastAdjustment
        /\ clock' = n4
        /\ step' = "quote"
        /\ last' = [op |-> "quote", tRecord |-> clock,
                    tRate |-> IF passed THEN n4 ELSE n2, adjusted |-> passed]
        /\ UNCHANGED <<config, targetRPS, lastQuoteAdj, history, allLow,
                       nUpdates, nCalls, handlers, route, threshold>>

\* the values a later Date.now() of the same call may return
LiveLater(t) == {t + i * TickMs : i \in 0..LiveDriftTicks}

LiveQuoteStep ==
    \E n2 \in LiveLater(clock) : \E n3 \in LiveLater(clock) :
        \E n4 \in LiveLater(clock) : LiveQuote(n2, n3, n4)

\* time passes, an arrival being due MaxGapTicks after the last adjustment
LiveTick ==
    /\ clock < BucketMs
    /\ clock + TickMs - lastAdjustment <= MaxGapTicks * TickMs
    /\ Tick

ShiftTime(t) == IF t = None THEN None ELSE t - BucketMs

\* the epoch moves forward by one bucket: Date.now() and every stored time
\* and bucket key read BucketMs less (price.ts 83, 106, 110, 123); it does
\* so as soon as the clock has left the epoch's first bucket
Rebase ==
    /\ clock >= BucketMs
    /\ clock' = clock - BucketMs
    /\ lastAdjustment' = lastAdjustment - BucketMs
    /\ requestCounts' = [k \in {j - BucketMs : j \in DOMAIN requestCounts}
                           |-> requestCounts[k + BucketMs]]
    /\ last' = [last EXCEPT !.tRecord = ShiftTime(@), !.tRate = ShiftTime(@)]
    /\ UNCHANGED <<config, currentBaseFee, currentRPS, targetRPS, rpsHistory,
                   baseFeeHistory, step, lastQuoteAdj, history, allLow,
                   nUpdates, nCalls, handlers, route, threshold>>

NextLive ==
    \/ LiveQuoteStep
    \/ LiveTick
    \/ Rebase

\* a calculatePrice call can be made: its bucket is not full
QuoteEnabled ==
    clock < BucketMs /\ CountAt(requestCounts, Bucket(clock)) < MaxPerBucket

\* WF_vars(LiveQuoteStep), written out with the enabling condition above
QuoteFairness == []<>(~QuoteEnabled) \/ []<><<LiveQuoteStep>>_vars

\* quotes keep arriving and the clock keeps advancing
SpecLive ==
    /\ Init
    /\ [][NextLive]_vars
    /\ QuoteFairness
    /\ WF_vars(LiveTick)
    /\ WF_vars(Rebase)

\* the latest call adjusted the fee and did not measure a rate above target
AdjustedNotAbove == last.adjusted /\ ~RLt(targetRPS, currentRPS)

\* the latest call adjusted the fee and did not measure a utilization below
\* targetUtilization
AdjustedNotBelow ==
    last.adjusted /\ ~RLt(RDiv(currentRPS, targetRPS), config.targetUtilization)

\* C25: with arrivals and the clock never stopping and maxChangeRate > 0, if
\* every adjustment measures a rate above target the fee eventually reaches
\* maxBaseFee and stays there, and if every adjustment measures a utilization
\* below targetUtilization the fee eventually reaches minBaseFee and stays
\* there.
C25_SustainedDemandReachesBound ==
    /\ ([]~AdjustedNotAbove) => <>[](currentBaseFee = MaxFee)
    /\ ([]~AdjustedNotBelow) => <>[](currentBaseFee = MinFee)

\* two adjustments in a row measured a rate above target with the fee at
\* maxBaseFee
C25_Witness ==
    /\ last.adjusted
    /\ RLt(targetRPS, currentRPS)
    /\ Positive(config.maxChangeRate)
    /\ baseFeeHistory = <<MaxFee, MaxFee>>
    /\ currentBaseFee = MaxFee

\* C26: immediately after construction the fee is the configured defaultFee,
\* currentRPS is 0, utilization reads 0.0%, targetRPS is targetUtilization * 20
\* and there are no buckets.
C26_ConstructedState ==
    step = "construct"
        => /\ currentBaseFee = config.defaultFee.micros
           /\ getEIP1559Metrics.currentRPS = Int2Rat(0)
           /\ getEIP1559Metrics.utilization = 0
           /\ targetRPS = Rat(config.targetUtilization[1] * 20,
                              config.targetUtilization[2])
           /\ getEIP1559Metrics.activeSeconds = 0
           /\ getEIP1559Metrics.requestCount = 0

\* a controller just built with targetUtilization 0.25: targetRPS is 5
C26_Witness ==
    /\ step = "construct"
    /\ config.targetUtilization = <<1, 4>>
    /\ targetRPS = Int2Rat(5)

(***************************************************************************)
(* createEIP1559Config                                                     *)
(***************************************************************************)
\* mutation: the defaults are the values of the documentation's example
defaults_Example ==
    [minBaseFee |-> Str(500), maxBaseFee |-> Str(50000), defaultFee |-> Str(1000),
     maxChangeRate |-> <<1, 8>>, targetUtilization |-> <<3, 5>>,
     smoothingWindow |-> 20, elasticityMultiplier |-> <<3, 2>>,
     adjustmentInterval |-> 10000]

\* the defaults of createEIP1559Config (config.ts 21-30)
defaults ==
    [minBaseFee |-> Str(1000), maxBaseFee |-> Str(50000), defaultFee |-> Str(1000),
     maxChangeRate |-> <<1, 8>>, targetUtilization |-> <<1, 2>>,
     smoothingWindow |-> 30, elasticityMultiplier |-> <<2, 1>>,
     adjustmentInterval |-> 10000]

\* { ...defaults, ...overrides } (config.ts 32)
createEIP1559Config(overrides) ==
    [k \in ConfigKeys |-> IF k \in overrides.keys THEN overrides.vals[k]
                          ELSE defaults[k]]

\* the Partial<EIP1559InspiredConfig> arguments of createEIP1559Config
Overrides ==
    {Partial({}, BaseConfig),
     Partial({"smoothingWindow"}, [BaseConfig EXCEPT !.smoothingWindow = 2]),
     Partial({"minBaseFee", "adjustmentInterval"},
             [BaseConfig EXCEPT !.minBaseFee = Str(500), !.adjustmentInterval = 500]),
     Partial({"targetUtilization", "maxBaseFee"},
             [BaseConfig EXCEPT !.targetUtilization = <<1, 4>>,
                                !.maxBaseFee = Str(2000)])}

InitCreated ==
    /\ InitHistory
    /\ threshold = NoThreshold
    /\ \E overrides \in Overrides : Construct(createEIP1559Config(overrides))

\* the controller built from createEIP1559Config(overrides)
SpecCreated == InitCreated /\ [][NextMetrics]_vars

\* the defaults as documented (documentation.md 234-241): "$0.001", "$0.05",
\* "$0.001", 0.125, 0.5, 30, 2.0, 10000
DocumentedDefault(k) ==
    CASE k = "minBaseFee" -> Str(1000)
      [] k = "maxBaseFee" -> Str(50000)
      [] k = "defaultFee" -> Str(1000)
      [] k = "maxChangeRate" -> Rat(125, 1000)
      [] k = "targetUtilization" -> Rat(5, 10)
      [] k = "smoothingWindow" -> 30
      [] k = "elasticityMultiplier" -> Int2Rat(2)
      [] k = "adjustmentInterval" -> 10000

WindowMs == 60000

\* the DynamicPricingConfig values the calculator is built with
ThresholdConfigs ==
    {[basePrice |-> Str(1000), maxPrice |-> Str(10000),
      rpsThreshold |-> Int2Rat(1), multiplier |-> Int2Rat(200)],
     [basePrice |-> Str(1000), maxPrice |-> Str(1100),
      rpsThreshold |-> Int2Rat(0), multiplier |-> Int2Rat(6000)],
     [basePrice |-> Str(1020), maxPrice |-> Str(10000),
      rpsThreshold |-> Int2Rat(0), multiplier |-> Int2Rat(0)]}

\* requestTimestamps.filter(ts => ts > cutoff) (price.ts 22, 28)
RECURSIVE After(_, _)
After(ts, cutoff) ==
    IF Len(ts) = 0 THEN <<>>
    ELSE IF Head(ts) > cutoff THEN <<Head(ts)>> \o After(Tail(ts), cutoff)
    ELSE After(Tail(ts), cutoff)

\* RPSTracker.record up to its return (price.ts 17-22)
record(ts, now) == After(Append(ts, now), now - WindowMs)

\* RPSTracker.getCurrentRPS (price.ts 26-32)
trackerRPS(ts, now) == Rat(Len(After(ts, now - WindowMs)), WindowMs \div 1000)

\* x.toFixed(4) of a rational number of micro-dollars, read back as
\* micro-dollars
toFixed4Rat(x) == ((2 * x[1] + 100 * x[2]) \div (200 * x[2])) * 100

\* DynamicPricingCalculator.calculatePrice after record() (price.ts 54-69)
thresholdPrice(cfg, originalPrice, currentRate) ==
    LET baseNum == getNumberIntFromPrice(originalPrice, cfg.basePrice)
        maxNum == getNumberIntFromPrice(originalPrice, cfg.maxPrice)
        excessRPS == RSub(currentRate, cfg.rpsThreshold)
        priceIncrease == RMul(excessRPS, cfg.multiplier)
        newPrice == RMin(RAdd(Int2Rat(baseNum), priceIncrease), Int2Rat(maxNum))
    IN  IF RLeq(currentRate, cfg.rpsThreshold) THEN cfg.basePrice
        ELSE Str(toFixed4Rat(newPrice))

\* DynamicPricingCalculator.calculatePrice (price.ts 50-70): record() reads
\* the clock at n1 and its getCurrentRPS at n2
ThresholdQuote(n1, n2) ==
    LET ts == record(threshold.requestTimestamps, n1)
    IN  /\ nCalls < MaxCalls
        /\ n1 = clock /\ n1 <= n2
        /\ threshold' = [threshold EXCEPT
                           !.requestTimestamps = ts,
                           !.returned = thresholdPrice(threshold.config, Str(1000),
                                                       trackerRPS(ts, n2))]
        /\ clock' = n2
        /\ step' = "thresholdQuote"
        /\ nCalls' = nCalls + 1
        /\ UNCHANGED <<config, currentBaseFee, currentRPS, targetRPS, rpsHistory,
                       baseFeeHistory, requestCounts, lastAdjustment, last,
                       lastQuoteAdj, history, allLow, nUpdates, handlers, route>>

ThresholdStep == \E n2 \in Later(clock) : ThresholdQuote(clock, n2)

\* constructor (price.ts 45-48)
InitThreshold ==
    /\ InitHistory
    /\ Construct(BaseConfig)
    /\ \E cfg \in ThresholdConfigs :
          threshold = [config |-> cfg, requestTimestamps |-> <<>>, returned |-> None]

NextThreshold ==
    \/ ThresholdStep
    \/ Tick

SpecThreshold == InitThreshold /\ [][NextThreshold]_vars

BasePrice == threshold.config.basePrice.micros

MaxPrice == threshold.config.maxPrice.micros

\* C28: as soon as the number of requests recorded within the last second
\* exceeds rpsThreshold, with multiplier > 0 and basePrice < maxPrice,
\* calculatePrice returns a price strictly greater than basePrice.
C28_AboveThresholdRaisesPrice ==
    [][(/\ CallStep
        /\ step' = "thresholdQuote"
        /\ RLt(threshold.config.rpsThreshold,
               Int2Rat(Len(After(threshold'.requestTimestamps, clock' - 1000))))
        /\ Positive(threshold.config.multiplier)
        /\ BasePrice < MaxPrice)
       => threshold'.returned.micros > BasePrice]_vars

\* C29: every price calculatePrice returns is at least basePrice and at most
\* maxPrice, and it is basePrice whenever the current rate is at or below
\* rpsThreshold or multiplier is 0.
C29_PriceBetweenBaseAndMax ==
    [][(CallStep /\ step' = "thresholdQuote")
       => /\ BasePrice <= threshold'.returned.micros
          /\ threshold'.returned.micros <= MaxPrice
          /\ (\/ RLeq(trackerRPS(threshold'.requestTimestamps, clock'),
                      threshold.config.rpsThreshold)
              \/ threshold.config.multiplier = Int2Rat(0))
             => threshold'.returned.micros = BasePrice]_vars

(***************************************************************************)
(* adjustBaseFee against its reference formula                             *)
(***************************************************************************)
\* configurations that put measured rates in each of the three ranges of
\* adjustBaseFee: target 1/2 request per second (BaseConfig) and target 2
AdjustConfigs ==
    {BaseConfig,
     [BaseConfig EXCEPT !.targetUtilization = <<1, 10>>,
                        !.maxChangeRate = <<1, 8>>,
                        !.elasticityMultiplier = <<2, 1>>,
                        !.defaultFee = Str(1600)]}

InitAdjust ==
    /\ InitHistory
    /\ threshold = NoThreshold
    /\ \E cfg \in AdjustConfigs : Construct(cfg)

SpecAdjust == InitAdjust /\ [][NextMetrics]_vars

\* the multiplier of the reference: 1 + min((u - 1) * maxChangeRate *
\* elasticityMultiplier, maxChangeRate) above 1, 1 - min(((targetUtilization
\* - u) / targetUtilization) * maxChangeRate, maxChangeRate) below
\* targetUtilization, 1 otherwise
RefMultiplier(u, cfg) ==
    LET one == Int2Rat(1)
        mcr == cfg.maxChangeRate
        tu  == cfg.targetUtilization
    IN  CASE RLt(one, u) ->
               RAdd(one, RMin(RMul(RSub(u, one), RMul(mcr, cfg.elasticityMultiplier)),
                              mcr))
          [] ~RLt(one, u) /\ RLt(u, tu) ->
               RSub(one, RMin(RMul(RDiv(RSub(tu, u), tu), mcr), mcr))
          [] OTHER -> one

\* clamp(fee * multiplier, minFee, maxFee) with utilization = rate / target
RefFee(fee, rate, target, cfg) ==
    LET lo == cfg.minBaseFee.micros
        hi == cfg.maxBaseFee.micros
        x  == MulFee(fee, RefMultiplier(RDiv(rate, target), cfg))
    IN  IF x < lo THEN lo ELSE IF x > hi THEN hi ELSE x

InBand(rate, target, cfg) ==
    /\ RLeq(cfg.targetUtilization, RDiv(rate, target))
    /\ RLeq(RDiv(rate, target), Int2Rat(1))

C32_AdjustIdempotentSameInstant ==
    [][(/\ CallStep
        /\ step \in {"force", "adjust"}
        /\ step' \in {"force", "adjust"}
        /\ last'.tRate = last.tRate
        /\ clock' = clock)
       => currentBaseFee' = currentBaseFee]_vars

(***************************************************************************)
(* recordRequest and getCurrentRPS against their descriptions, for         *)
(* smoothing windows of 2, 1 and 0 seconds                                 *)
(***************************************************************************)
WindowConfigs ==
    {BaseConfig,
     [BaseConfig EXCEPT !.smoothingWindow = 1],
     [BaseConfig EXCEPT !.smoothingWindow = 0, !.adjustmentInterval = 0]}

InitWindow ==
    /\ InitHistory
    /\ threshold = NoThreshold
    /\ \E cfg \in WindowConfigs : Construct(cfg)

SpecWindow == InitWindow /\ [][NextMetrics]_vars

\* C33: the recordRequest of a calculatePrice call at time now raises the
\* count of the bucket floor(now/1000)*1000 by exactly 1 (from 0 when it
\* was absent), then removes exactly the buckets with key
\* < now - smoothingWindow*1000, and leaves every other bucket's count
\* unchanged.
C33_RecordCountsAndPurges ==
    [][(CallStep /\ step' = "quote")
       => LET now == last'.tRecord
              cutoff == now - config.smoothingWindow * 1000
              bucket == (now \div 1000) * 1000
          IN  \A k \in DOMAIN requestCounts \cup DOMAIN requestCounts' \cup {bucket} :
                 IF k < cutoff THEN k \notin DOMAIN requestCounts'
                 ELSE IF k = bucket
                      THEN /\ k \in DOMAIN requestCounts'
                           /\ requestCounts'[k] = CountAt(requestCounts, k) + 1
                 ELSE /\ k \in DOMAIN requestCounts /\ k \in DOMAIN requestCounts'
                      /\ requestCounts'[k] = requestCounts[k]]_vars

\* the third call found its bucket absent and created it at 1, and no other
\* bucket is left, although the fee is above what this call's adjustment of
\* the default fee gives: the requests an earlier adjustment measured were
\* in a bucket that has been purged
C33_Witness ==
    /\ step = "quote"
    /\ nCalls = 3
    /\ config.smoothingWindow = 1
    /\ currentBaseFee > 1250
    /\ DOMAIN requestCounts = {Bucket(last.tRecord)}
    /\ requestCounts[Bucket(last.tRecord)] = 1

\* the rate as described: the sum of the counts of the buckets with key
\* >= now - 1000 when that sum is positive, otherwise the arithmetic mean
\* of the history, or 0 when the history is empty
RECURSIVE RefSum(_, _, _)
RefSum(rc, t, oneSecondAgo) ==
    IF t > MaxTime THEN 0
    ELSE (IF t \in DOMAIN rc /\ t >= oneSecondAgo THEN rc[t] ELSE 0)
         + RefSum(rc, t + BucketMs, oneSecondAgo)

RefRate(h, rc, now) ==
    LET sum == RefSum(rc, 0, now - 1000)
    IN  IF sum > 0 THEN Int2Rat(sum)
        ELSE IF Len(h) = 0 THEN Int2Rat(0)
        ELSE Rat(SumSeq(h), Len(h))

Appended(h, x, cfg) ==
    IF Len(h) + 1 > cfg.smoothingWindow THEN Tail(h \o <<x>>) ELSE h \o <<x>>

\* the last recorded history value (0 when nothing is recorded)
LastRecorded(h) == IF h = <<>> THEN 0 ELSE h[Len(h)]

\* this step ran getCurrentRPS once: a forced adjustment or a quote that
\* does not adjust
RateStepOnce ==
    /\ CallStep
    /\ step' \in {"quote", "force"}
    /\ step' = "quote" => ~last'.adjusted

\* C35: getCurrentRPS appends a positive trailing-second sum to rpsHistory
\* only if it differs from the last recorded history value by more than 1
\* (evicting the oldest entry at capacity); when the sum is 0 or within 1
\* of the last recorded value, rpsHistory is left unchanged.
C35_HistoryAppendsOnlyOnChange ==
    [][RateStepOnce
       => LET sum == RefSum(requestCounts', 0, last'.tRate - 1000)
          IN  rpsHistory' =
                 (IF sum > 0 /\ Abs(sum - LastRecorded(rpsHistory)) > 1
                  THEN Appended(rpsHistory, sum, config)
                  ELSE rpsHistory)]_vars

\* C35 (amended): getCurrentRPS appends a positive trailing-second sum to
\* rpsHistory if rpsHistory is empty or the sum differs from its last value
\* by more than 1 (evicting the oldest entry at capacity); when the sum is
\* 0, or rpsHistory is not empty and the sum is within 1 of its last value,
\* rpsHistory is left unchanged.
C35_HistoryAppendsWhenEmptyOrChanged ==
    [][RateStepOnce
       => LET sum == RefSum(requestCounts', 0, last'.tRate - 1000)
          IN  rpsHistory' =
                 (IF sum > 0 /\ (rpsHistory = <<>>
                                 \/ Abs(sum - LastRecorded(rpsHistory)) > 1)
                  THEN Appended(rpsHistory, sum, config)
                  ELSE rpsHistory)]_vars

\* the first quote of a controller found rpsHistory empty and appended its
\* sum of 1
C35_Witness ==
    /\ step = "quote"
    /\ nCalls = 1
    /\ ~last.adjusted
    /\ currentRPS = Int2Rat(1)
    /\ rpsHistory = <<1>>

\* C36: right after the recordRequest of any calculatePrice call the number
\* of buckets in requestCounts is at most smoothingWindow + 1, however many
\* requests were recorded.
C36_BucketsBounded ==
    step = "quote" => Cardinality(DOMAIN requestCounts) <= config.smoothingWindow + 1

\* a call at a whole second left the full smoothingWindow + 1 buckets
C36_Witness ==
    /\ step = "quote"
    /\ config.smoothingWindow = 1
    /\ Cardinality(DOMAIN requestCounts) = 2
    /\ getEIP1559Metrics.requestCount = 3

(***************************************************************************)
(* calculatePrice calls whose clock reads lie further apart.  Times are on *)
(* a grid of TickMs: a request recorded in the last milliseconds of a      *)
(* second whose rate is read just after the second's end is, on the grid,  *)
(* a record at the half second and a read two ticks later.                 *)
(***************************************************************************)
Slower(t) == {t + i * TickMs : i \in 0..(MaxDriftTicks + 1)} \cap 0..MaxTime

SlowQuoteStep ==
    \E n2 \in Slower(clock) : \E n3 \in Slower(clock) : \E n4 \in Slower(clock) :
        Quote(clock, n2, n3, n4) /\ UNCHANGED route

NextSlow ==
    \/ SlowQuoteStep
    \/ Tick

SpecSlow == Init /\ [][NextSlow]_vars

\* C37: in every calculatePrice call the trailing-second sum the call
\* computes includes the call's own request and is at least 1, so the
\* smoothed-average fallback is not taken and currentRPS >= 1 right after
\* the call.
C37_QuoteCountsItself ==
    [][(CallStep /\ step' = "quote")
       => /\ RefSum(requestCounts', 0, last'.tRate - 1000) >= 1
          /\ RLeq(Int2Rat(1), getEIP1559Metrics.currentRPS')]_vars

(***************************************************************************)
(* calculatePrice and reset only: until a call adjusts, lastQuoteAdj is    *)
(* empty and the controller was built (at time 0) or reset last            *)
(***************************************************************************)
NextReset ==
    \/ QuoteStep
    \/ Reset
    \/ Tick

SpecReset == Init /\ [][NextReset]_vars

\* the time of a calculatePrice step's gate read
GateTime == IF last'.adjusted THEN lastAdjustment' ELSE clock'

\* C38: reset at t0 restarts the interval, and after construction or reset
\* at t0 no calculatePrice call whose gate reads a time
\* < t0 + adjustmentInterval changes the fee, whatever was recorded: the
\* first adjustment by a call comes a full interval after t0 at the
\* earliest.
C38_FirstAdjustmentAfterFullInterval ==
    [][/\ (CallStep /\ step' = "reset") => lastAdjustment' = clock'
       /\ (CallStep /\ step' = "quote" /\ lastQuoteAdj = <<>>)
          => LET t0 == IF history = "fresh" THEN 0
                       ELSE IF step = "reset" THEN clock
                       ELSE lastAdjustment
             IN  /\ GateTime < t0 + config.adjustmentInterval
                    => /\ currentBaseFee' = currentBaseFee
                       /\ baseFeeHistory' = baseFeeHistory
                       /\ ~last'.adjusted
                 /\ last'.adjusted => GateTime >= t0 + config.adjustmentInterval]_vars

\* a call after a reset later than the construction, inside the interval,
\* measured a rate above the target and left the default fee alone
C38_Witness ==
    /\ step = "quote"
    /\ history = "reset"
    /\ lastQuoteAdj = <<>>
    /\ ~last.adjusted
    /\ lastAdjustment > 0
    /\ clock < lastAdjustment + config.adjustmentInterval
    /\ RLt(targetRPS, currentRPS)
    /\ currentBaseFee = DefaultFee

(***************************************************************************)
(* Controllers whose bounds are not multiples of $0.0001                   *)
(***************************************************************************)
FineConfigs ==
    {[BaseConfig EXCEPT !.minBaseFee = Str(40), !.defaultFee = Str(40)],
     [BaseConfig EXCEPT !.minBaseFee = Str(520), !.defaultFee = Str(520)]}

InitFine ==
    /\ InitHistory
    /\ threshold = NoThreshold
    /\ \E cfg \in FineConfigs : Construct(cfg)

SpecFine == InitFine /\ [][NextMetrics]_vars

\* the price calculatePrice returns, `$${currentBaseFee.toFixed(4)}`, read
\* back as a number of micro-dollars
ReturnedPrice(fee) == toFixed4(fee) * 100

\* C39: the price every calculatePrice call returns, read back as a number,
\* lies within [minFee, maxFee], and is not $0.0000 when minFee > 0.
C39_ReturnedPriceWithinBounds ==
    [][(CallStep /\ step' = "quote")
       => /\ MinFee <= ReturnedPrice(currentBaseFee')
          /\ ReturnedPrice(currentBaseFee') <= MaxFee
          /\ MinFee > 0 => ReturnedPrice(currentBaseFee') # 0]_vars

(***************************************************************************)
(* A controller that keeps seven fees, adjusted by force MaxForced times   *)
(***************************************************************************)
HistoryConfig == [BaseConfig EXCEPT !.smoothingWindow = 7]

InitLong ==
    /\ InitHistory
    /\ threshold = NoThreshold
    /\ Construct(HistoryConfig)

NextLong ==
    \/ QuoteStep
    \/ ForceStep
    \/ Tick

SpecLong == InitLong /\ [][NextLong]_vars

\* the last min(5, Len(h)) entries of h, in order
LastEntries(h) ==
    LET n == IF Len(h) < 5 THEN Len(h) ELSE 5
    IN  [i \in 1..n |-> h[Len(h) - n + i]]

====
